---------------------------- MODULE Spec2Model ----------------------------
(***************************************************************************)
(* Sample halo2 circuits of martonmoro/halo2-fibonacci:                    *)
(*   fibo3  - src/src/example1.rs            three advice columns          *)
(*   fibo1  - src/src/fibonacci/example2.rs  one advice column             *)
(*   range1 - src/src/range_check/example1.rs direct range check           *)
(*   range2 - src/src/range_check/example2.rs range check with a lookup    *)
(* The circuits' configure/assign/synthesize routines are translated from  *)
(* the source files.  The layouter, the permutation tracker, the lookup    *)
(* table loader and the satisfaction checker (MockProver) are not part of  *)
(* the source files; they follow sections 4.2-4.6 of the design document.  *)
(***************************************************************************)
EXTENDS Integers, Sequences, FiniteSets, TLC

VARIABLES
  circuit,      \* which sample circuit this instance is
  a, b,         \* MyCircuit.a / MyCircuit.b (fibo), MyCircuit.value / large_value (range): Option
  nrows,        \* argument of the single-column FiboChip::assign
  range_v,      \* range argument of the first RangeCheckConfig::assign call (range2)
  table,        \* assigned cells: <<kind, column, row>> -> field element
  selectors,    \* enabled selector rows: set of <<selector, row>>
  copies,       \* equality pairs in the order they were recorded
  regions,      \* regions in allocation order: [name, start, rows]
  cursor,       \* the layouter's next free row
  pc,           \* position inside synthesize / the test driver
  i,            \* loop counter of synthesize (fibo3) or row of assign's loop (fibo1)
  prev_a, prev_b, prev_c,   \* assigned cells held by synthesize / assign
  mutated,      \* the cell corrupted after synthesis, as a set (empty: none)
  failures      \* the checker's result: sequence of violations

vars == <<circuit, a, b, nrows, range_v, table, selectors, copies, regions,
          cursor, pc, i, prev_a, prev_b, prev_c, mutated, failures>>

---------------------------------------------------------------------------
(* Bounds of the model *)

\* Largest seed value of the Fibonacci circuits
MaxSeed == 2
\* Largest nrows passed to the single-column assign
MaxNRows == 10
\* Largest amount added to a cell by the corruption step
MaxDelta == 1
\* Largest witness of range1 and largest `value` of range2; large_value goes
\* up to LOOKUP_RANGE + MaxOver
MaxValue == 9
MaxOver == 1
\* Free rows left in the table when an assign routine is called on a layouter
\* other regions have filled
MaxRoom == 2

---------------------------------------------------------------------------
(* Field elements: pasta::Fp, reduced to a prime small enough for 32-bit   *)
(* products.  Every value the circuits handle is far below either modulus, *)
(* so "non-zero" means the same in both fields.                            *)

FieldModulus == 32749

F == 0 .. (FieldModulus - 1)

FAdd(x, y) == (x + y) % FieldModulus

FSub(x, y) == (x - y + FieldModulus) % FieldModulus

FMul(x, y) == (x * y) % FieldModulus

\* Option<F> / Value<F>: <<>> is None / unknown, <<v>> is Some(v) / known
None == <<>>

Some(v) == <<v>>

IsSome(o) == Len(o) = 1

Unwrap(o) == o[1]

---------------------------------------------------------------------------
(* Cells and the table *)

Advice(col, row) == <<"advice", col, row>>

Instance(row) == <<"instance", 0, row>>

Fixed(row) == <<"fixed", 0, row>>

IsAssigned(t, cell) == cell \in DOMAIN t

\* table with cell set to v
WriteCell(t, cell, v) ==
  [x \in DOMAIN t \cup {cell} |-> IF x = cell THEN v ELSE t[x]]

\* AssignedCell<F, F>
ACell(cell, v) == [cell |-> cell, value |-> v]

NullCell == [cell |-> <<"none", 0, 0>>, value |-> 0]


---------------------------------------------------------------------------
(* Expression trees (design 4.2): constants, column queries at a rotation, *)
(* selector queries, and sums, differences and products of expressions     *)

Constant(v) == [op |-> "const", v |-> v]

query_advice(col, rot) == [op |-> "advice", col |-> col, rot |-> rot]

query_selector(s) == [op |-> "selector", sel |-> s]

Sum(l, r) == [op |-> "+", l |-> l, r |-> r]

Diff(l, r) == [op |-> "-", l |-> l, r |-> r]

Product(l, r) == [op |-> "*", l |-> l, r |-> r]

\* Value of expression e at base row `row`; None when a queried cell is unassigned
RECURSIVE Eval(_, _, _, _)
Eval(e, t, sels, row) ==
  CASE e.op = "const" -> Some(e.v)
    [] e.op = "selector" -> Some(IF <<e.sel, row>> \in sels THEN 1 ELSE 0)
    [] e.op = "advice" ->
         IF IsAssigned(t, Advice(e.col, row + e.rot))
         THEN Some(t[Advice(e.col, row + e.rot)]) ELSE None
    [] OTHER ->
         LET x == Eval(e.l, t, sels, row)
             y == Eval(e.r, t, sels, row)
         IN  IF ~IsSome(x) \/ ~IsSome(y) THEN None
             ELSE CASE e.op = "+" -> Some(FAdd(Unwrap(x), Unwrap(y)))
                    [] e.op = "-" -> Some(FSub(Unwrap(x), Unwrap(y)))
                    [] e.op = "*" -> Some(FMul(Unwrap(x), Unwrap(y)))

\* s \o <<x>> unless x is already in s
AppendNew(s, x) == IF \E k \in DOMAIN s : s[k] = x THEN s ELSE Append(s, x)

RECURSIVE AppendAllNew(_, _)
AppendAllNew(s, xs) ==
  IF xs = <<>> THEN s ELSE AppendAllNew(AppendNew(s, Head(xs)), Tail(xs))

\* The advice queries <<col, rot>> of an expression, in order of first use
RECURSIVE Queries(_)
Queries(e) ==
  CASE e.op = "const" -> <<>>
    [] e.op = "selector" -> <<>>
    [] e.op = "advice" -> << <<e.col, e.rot>> >>
    [] OTHER -> AppendAllNew(Queries(e.l), Queries(e.r))

---------------------------------------------------------------------------
(* configure: the constraint system of each circuit *)

\* Circuit size parameter k of the Fibonacci circuits and of range1
K == 4

\* Circuit size parameter k of range2
K_LOOKUP == 9

RANGE == 8

LOOKUP_RANGE == 256

\* 2^k rows
NumRows(c) == IF c = "range2" THEN 2 ^ K_LOOKUP ELSE 2 ^ K

\* FiboChip::configure of example1.rs: gate "add" = s * (a + b - c), one row
Fibo3Gate ==
  LET s  == query_selector("selector")
      qa == query_advice(0, 0)
      qb == query_advice(1, 0)
      qc == query_advice(2, 0)
  IN  [name |-> "add", selector |-> "selector", constraint |-> "",
       poly |-> Product(s, Diff(Sum(qa, qb), qc))]

\* FiboChip::configure of fibonacci/example2.rs: the same gate over three rows
Fibo1Gate ==
  LET s  == query_selector("selector")
      qa == query_advice(0, 0)
      qb == query_advice(0, 1)
      qc == query_advice(0, 2)
  IN  [name |-> "add", selector |-> "selector", constraint |-> "",
       poly |-> Product(s, Diff(Sum(qa, qb), qc))]

\* (1..range).fold(value, |expr, i| expr * (Constant(i) - value))
RECURSIVE RangeFold(_, _, _, _)
RangeFold(expr, k, range, value) ==
  IF k >= range THEN expr
  ELSE RangeFold(Product(expr, Diff(Constant(k), value)), k + 1, range, value)

\* range_check folding over 1..=range
range_check_inclusive(range, value) == RangeFold(value, 1, range + 1, value)

range_check(range, value) == RangeFold(value, 1, range, value)

\* Gate "Range check" of both range-check configs
RangeGate ==
  [name |-> "Range check", selector |-> "q_range_check",
   constraint |-> "range check",
   poly |-> Product(query_selector("q_range_check"),
                    range_check(RANGE, query_advice(0, 0)))]

\* The lookup gated by the selector of the direct check
RangeLookup_wrong_selector ==
  [name |-> "lookup", selector |-> "q_range_check",
   input |-> Product(query_selector("q_range_check"), query_advice(0, 0))]

\* meta.lookup of range_check/example2.rs: (q_lookup * value, table.value)
RangeLookup ==
  [name |-> "lookup", selector |-> "q_lookup",
   input |-> Product(query_selector("q_lookup"), query_advice(0, 0))]

Gates(c) ==
  CASE c = "fibo3" -> <<Fibo3Gate>>
    [] c = "fibo1" -> <<Fibo1Gate>>
    [] OTHER -> <<RangeGate>>

Lookups(c) == IF c = "range2" THEN <<RangeLookup>> ELSE <<>>

\* configure without enable_equality(instance)
EqualityEnabled_no_instance(c) ==
  CASE c = "fibo3" -> { <<"advice", 0>>, <<"advice", 1>>, <<"advice", 2>> }
    [] c = "fibo1" -> { <<"advice", 0>> }
    [] OTHER -> {}

\* Columns on which configure called enable_equality, as <<kind, column>>
EqualityEnabled(c) ==
  CASE c = "fibo3" -> { <<"advice", 0>>, <<"advice", 1>>, <<"advice", 2>>,
                        <<"instance", 0>> }
    [] c = "fibo1" -> { <<"advice", 0>>, <<"instance", 0>> }
    [] OTHER -> {}

---------------------------------------------------------------------------
(* Satisfaction checker (design 4.6): gates, then lookups, then equality;  *)
(* every violation is collected                                            *)

HexDigits == <<"0", "1", "2", "3", "4", "5", "6", "7",
               "8", "9", "a", "b", "c", "d", "e", "f">>

RECURSIVE Hex(_)
Hex(n) == IF n < 16 THEN HexDigits[n + 1]
          ELSE Hex(n \div 16) \o HexDigits[(n % 16) + 1]

\* Exact representation of a field element in a violation: 0, 1 and -1 are
\* written in decimal, every other value in hexadecimal without leading zeros
FormatValue(v) ==
  CASE v = 0 -> "0"
    [] v = 1 -> "1"
    [] v = FieldModulus - 1 -> "-1"
    [] OTHER -> "0x" \o Hex(v)

\* The elements of a finite set of integers in increasing order
RECURSIVE Ascending(_)
Ascending(S) ==
  IF S = {} THEN <<>>
  ELSE LET m == CHOOSE x \in S : \A y \in S : x <= y
       IN  <<m>> \o Ascending(S \ {m})

\* Region name and in-region offset of an absolute row, or the absolute row
Location(regs, row) ==
  LET in == {r \in DOMAIN regs :
               regs[r].start <= row /\ row < regs[r].start + regs[r].rows}
  IN  IF in = {} THEN [region |-> <<>>, offset |-> row]
      ELSE LET r == CHOOSE x \in in : \A y \in in : x <= y
           IN  [region |-> <<r - 1, regs[r].name>>,
                offset |-> row - regs[r].start]

EnabledRows(sels, sel) == Ascending({sr[2] : sr \in {x \in sels : x[1] = sel}})

\* The values of the cells a gate queries at `row`, formatted
CellValues(qs, t, row) ==
  [k \in DOMAIN qs |->
     IF IsAssigned(t, Advice(qs[k][1], row + qs[k][2]))
     THEN FormatValue(t[Advice(qs[k][1], row + qs[k][2])]) ELSE "unassigned"]

GateFailure(kind, g, gate, t, regs, row) ==
  LET loc == Location(regs, row)
      qs  == Queries(gate.poly)
  IN  [kind |-> kind, gate |-> <<g - 1, gate.name>>,
       constraint |-> <<0, gate.constraint>>,
       region |-> loc.region, offset |-> loc.offset,
       cells |-> [k \in DOMAIN qs |-> <<"advice", qs[k][1], qs[k][2]>>],
       values |-> CellValues(qs, t, row)]

\* Step 1 for one gate over the rows (ascending) on which its selector is true
RECURSIVE GateRows(_, _, _, _, _, _)
GateRows(g, gate, rows, t, sels, regs) ==
  IF rows = <<>> THEN <<>>
  ELSE LET row == Head(rows)
           v   == Eval(gate.poly, t, sels, row)
           here == IF ~IsSome(v)
                   THEN <<GateFailure("CellNotAssigned", g, gate, t, regs, row)>>
                   ELSE IF Unwrap(v) # 0
                   THEN <<GateFailure("ConstraintNotSatisfied", g, gate, t, regs, row)>>
                   ELSE <<>>
       IN  here \o GateRows(g, gate, Tail(rows), t, sels, regs)

RECURSIVE GateFailures(_, _, _, _, _)
GateFailures(gates, g, t, sels, regs) ==
  IF g > Len(gates) THEN <<>>
  ELSE GateRows(g, gates[g], EnabledRows(sels, gates[g].selector), t, sels, regs)
       \o GateFailures(gates, g + 1, t, sels, regs)

\* The values the lookup's target column holds, at any row
TableValues(t) == {t[c] : c \in {x \in DOMAIN t : x[1] = "fixed"}}

\* Step 2 for one lookup over the rows on which its selector is true
RECURSIVE LookupRows(_, _, _, _, _, _)
LookupRows(l, lookup, rows, t, sels, regs) ==
  IF rows = <<>> THEN <<>>
  ELSE LET row == Head(rows)
           v   == Eval(lookup.input, t, sels, row)
           loc == Location(regs, row)
           qs  == Queries(lookup.input)
           here == IF IsSome(v) /\ Unwrap(v) \in TableValues(t) THEN <<>>
                   ELSE << [kind |-> IF IsSome(v) THEN "LookupNotSatisfied"
                                     ELSE "CellNotAssigned",
                            gate |-> <<l - 1, lookup.name>>,
                            constraint |-> <<0, "">>,
                            region |-> loc.region, offset |-> loc.offset,
                            cells |-> [k \in DOMAIN qs |->
                                         <<"advice", qs[k][1], qs[k][2]>>],
                            values |-> CellValues(qs, t, row)] >>
       IN  here \o LookupRows(l, lookup, Tail(rows), t, sels, regs)

RECURSIVE LookupFailures(_, _, _, _, _)
LookupFailures(lookups, l, t, sels, regs) ==
  IF l > Len(lookups) THEN <<>>
  ELSE LookupRows(l, lookups[l], EnabledRows(sels, lookups[l].selector),
                  t, sels, regs)
       \o LookupFailures(lookups, l + 1, t, sels, regs)

\* Permutation tracker (design 4.5): the equivalence class of a cell
RECURSIVE ClassClosure(_, _)
ClassClosure(S, cps) ==
  LET T == S \cup {cps[k][1] : k \in {j \in DOMAIN cps : cps[j][2] \in S}}
             \cup {cps[k][2] : k \in {j \in DOMAIN cps : cps[j][1] \in S}}
  IN  IF T = S THEN S ELSE ClassClosure(T, cps)

ClassOf(cell, cps) == ClassClosure({cell}, cps)

\* The two cells of a recorded pair hold different values
PairDiffers(t, pair) ==
  \/ ~IsAssigned(t, pair[1])
  \/ ~IsAssigned(t, pair[2])
  \/ t[pair[1]] # t[pair[2]]

\* Step 3: one violation per equality class whose cells differ, naming the
\* first recorded pair of the class whose two cells differ
RECURSIVE PermutationFailures(_, _, _)
PermutationFailures(cps, k, t) ==
  IF k > Len(cps) THEN <<>>
  ELSE LET first == \A j \in 1 .. (k - 1) :
                      PairDiffers(t, cps[j]) => cps[j][1] \notin ClassOf(cps[k][1], cps)
           here == IF PairDiffers(t, cps[k]) /\ first
                   THEN << [kind |-> "PermutationNotSatisfied",
                            gate |-> <<>>, constraint |-> <<>>,
                            region |-> <<>>, offset |-> 0,
                            cells |-> <<cps[k][1], cps[k][2]>>,
                            values |-> <<>>] >>
                   ELSE <<>>
       IN  here \o PermutationFailures(cps, k + 1, t)

\* A checker that stops at the first violation
verify_first_only(c, t, sels, cps, regs) ==
  LET all == GateFailures(Gates(c), 1, t, sels, regs)
             \o LookupFailures(Lookups(c), 1, t, sels, regs)
             \o PermutationFailures(cps, 1, t)
  IN  IF all = <<>> THEN <<>> ELSE <<Head(all)>>

\* check(constraint system, table, equality pairs, public inputs): the public
\* inputs are the instance cells of the table
verify(c, t, sels, cps, regs) ==
  GateFailures(Gates(c), 1, t, sels, regs)
  \o LookupFailures(Lookups(c), 1, t, sels, regs)
  \o PermutationFailures(cps, 1, t)

---------------------------------------------------------------------------
(* Layouter and region operations (design 4.3, 4.4).  A region body works  *)
(* on st = [table, selectors, copies, err]; err is "" while the body has   *)
(* not failed, and a step after a failure (the ? operator) does nothing.   *)

\* assign_region: the region reserved at the cursor
assign_region(regs, name, start, rows) ==
  Append(regs, [name |-> name, start |-> start, rows |-> rows])

RegionState ==
  [table |-> table, selectors |-> selectors, copies |-> copies, err |-> ""]

\* Selector::enable(region, offset): fails past the table's last row
enable(st, c, sel, row) ==
  IF st.err # "" THEN st
  ELSE IF row >= NumRows(c) THEN [st EXCEPT !.err = "NotEnoughRowsAvailable"]
  ELSE [st EXCEPT !.selectors = @ \cup {<<sel, row>>}]

\* assign_advice taking an absent value as zero
assign_advice_unchecked(st, cell, val) ==
  IF st.err # "" THEN st
  ELSE [st EXCEPT !.table = WriteCell(@, cell, IF IsSome(val) THEN Unwrap(val) ELSE 0)]

\* region.assign_advice(.., column, offset, || value): an absent value is
\* Error::Synthesis
assign_advice(st, cell, val) ==
  IF st.err # "" THEN st
  ELSE IF ~IsSome(val) THEN [st EXCEPT !.err = "Synthesis"]
  ELSE [st EXCEPT !.table = WriteCell(@, cell, Unwrap(val))]

\* The equality pair <<x, y>> is recorded only between equality-enabled columns
constrain_equal(st, c, x, y) ==
  IF st.err # "" THEN st
  ELSE IF <<x[1], x[2]>> \notin EqualityEnabled(c)
          \/ <<y[1], y[2]>> \notin EqualityEnabled(c)
       THEN [st EXCEPT !.err = "ColumnNotInPermutation"]
  ELSE [st EXCEPT !.copies = Append(@, <<x, y>>)]

\* AssignedCell::copy_advice(.., region, column, offset): writes the source's
\* value into the destination and constrains the two cells equal
copy_advice(st, c, src, dest) ==
  constrain_equal(assign_advice(st, dest, Some(src.value)), c, dest, src.cell)

\* region.assign_advice_from_instance(.., instance, row, advice, offset)
assign_advice_from_instance(st, c, row, dest) ==
  IF st.err # "" THEN st
  ELSE IF ~IsAssigned(st.table, Instance(row))
       THEN [st EXCEPT !.err = "BoundsFailure"]
  ELSE constrain_equal(assign_advice(st, dest, Some(st.table[Instance(row)])),
                       c, dest, Instance(row))

\* The state after a region body (or a layouter call) returned st
Commit(st) ==
  /\ table' = st.table
  /\ selectors' = st.selectors
  /\ copies' = st.copies

---------------------------------------------------------------------------
(* Three-column Fibonacci circuit: src/src/example1.rs *)

\* for _i in 3..10
LoopFrom == 3

\* The loop of synthesize ending one iteration early
LoopTo_short == LoopFrom + 6

LoopTo == 10

\* The region body of FiboChip::assign_first_row
assign_first_row_body(st, c, start, sa, sb) ==
  LET s1 == enable(st, c, "selector", start + 0)
      s2 == assign_advice(s1, Advice(0, start + 0), sa)
      s3 == assign_advice(s2, Advice(1, start + 0), sb)
      c_val == IF IsSome(sa) /\ IsSome(sb)
               THEN Some(FAdd(Unwrap(sa), Unwrap(sb))) ELSE None
  IN  assign_advice(s3, Advice(2, start + 0), c_val)

assign_first_row ==
  /\ circuit = "fibo3" /\ pc = "first_row"
  /\ LET start == cursor
         st == assign_first_row_body(RegionState, circuit, start, a, b)
     IN  /\ regions' = assign_region(regions, "first_row", start, 1)
         /\ cursor' = start + 1
         /\ Commit(st)
         /\ IF st.err = ""
            THEN /\ prev_a' = ACell(Advice(0, start), st.table[Advice(0, start)])
                 /\ prev_b' = ACell(Advice(1, start), st.table[Advice(1, start)])
                 /\ prev_c' = ACell(Advice(2, start), st.table[Advice(2, start)])
                 /\ pc' = "expose_a"
            ELSE /\ pc' = "error"
                 /\ UNCHANGED <<prev_a, prev_b, prev_c>>
  /\ UNCHANGED <<circuit, a, b, nrows, range_v, i, mutated, failures>>

\* assign_row_body with the sum taken of prev_c twice
assign_row_body_wrong_sum(st, c, start, pb, pcell) ==
  LET s1 == enable(st, c, "selector", start + 0)
      s2 == copy_advice(s1, c, pb, Advice(0, start + 0))
      s3 == copy_advice(s2, c, pcell, Advice(1, start + 0))
      c_val == Some(FAdd(pcell.value, pcell.value))
  IN  assign_advice(s3, Advice(2, start + 0), c_val)

\* assign_row_body assigning the previous values without copy constraints
assign_row_body_no_copy(st, c, start, pb, pcell) ==
  LET s1 == enable(st, c, "selector", start + 0)
      s2 == assign_advice(s1, Advice(0, start + 0), Some(pb.value))
      s3 == assign_advice(s2, Advice(1, start + 0), Some(pcell.value))
      c_val == Some(FAdd(pb.value, pcell.value))
  IN  assign_advice(s3, Advice(2, start + 0), c_val)

\* The region body of FiboChip::assign_row
assign_row_body(st, c, start, pb, pcell) ==
  LET s1 == enable(st, c, "selector", start + 0)
      s2 == copy_advice(s1, c, pb, Advice(0, start + 0))
      s3 == copy_advice(s2, c, pcell, Advice(1, start + 0))
      c_val == Some(FAdd(pb.value, pcell.value))
  IN  assign_advice(s3, Advice(2, start + 0), c_val)

\* One iteration of the loop of synthesize: assign_row, then the cells shift
assign_row ==
  /\ circuit = "fibo3" /\ pc = "loop" /\ i < LoopTo
  /\ LET start == cursor
         st == assign_row_body(RegionState, circuit, start, prev_b, prev_c)
     IN  /\ regions' = assign_region(regions, "next row", start, 1)
         /\ cursor' = start + 1
         /\ Commit(st)
         /\ IF st.err = ""
            THEN /\ prev_b' = prev_c
                 /\ prev_c' = ACell(Advice(2, start), st.table[Advice(2, start)])
                 /\ i' = i + 1
                 /\ pc' = IF i + 1 < LoopTo THEN "loop" ELSE "expose_out"
            ELSE /\ pc' = "error"
                 /\ UNCHANGED <<prev_b, prev_c, i>>
  /\ UNCHANGED <<circuit, a, b, nrows, range_v, prev_a, mutated, failures>>

\* expose_public recording no constraint
expose_public_unbound(st, c, cell, row) == st

\* FiboChip::expose_public: layouter.constrain_instance(cell, instance, row)
expose_public(st, c, cell, row) == constrain_equal(st, c, cell.cell, Instance(row))

\* The three expose_public calls of synthesize (rows 0, 1 and 2)
expose ==
  /\ circuit = "fibo3"
  /\ pc \in {"expose_a", "expose_b", "expose_out"}
  /\ LET st == CASE pc = "expose_a" -> expose_public(RegionState, circuit, prev_a, 0)
                 [] pc = "expose_b" -> expose_public(RegionState, circuit, prev_b, 1)
                 [] pc = "expose_out" -> expose_public(RegionState, circuit, prev_c, 2)
     IN  /\ Commit(st)
         /\ pc' = IF st.err # "" THEN "error"
                  ELSE CASE pc = "expose_a" -> "expose_b"
                         [] pc = "expose_b" ->
                              IF LoopFrom < LoopTo THEN "loop" ELSE "expose_out"
                         [] pc = "expose_out" -> "synthesized"
         /\ i' = IF pc = "expose_b" THEN LoopFrom ELSE i
  /\ UNCHANGED <<circuit, a, b, nrows, range_v, regions, cursor,
                 prev_a, prev_b, prev_c, mutated, failures>>

---------------------------------------------------------------------------
(* Single-column Fibonacci circuit: src/src/fibonacci/example2.rs *)

\* chip.assign(.., 10) in synthesize
SynthNRows == 10

\* The row of the public column bound to the output cell
OutputRow == 2

\* Rows the region "entire fibonacci table" spans: offsets 0 and 1 are always
\* used, the loop uses offsets 2 .. nrows - 1
TableRows(n) == IF n > 2 THEN n ELSE 2

\* The region body of FiboChip::assign up to the loop
assign_head_body(st, c, start) ==
  LET s1 == enable(st, c, "selector", start + 0)
      s2 == assign_advice_from_instance(s1, c, 0, Advice(0, start + 0))
  IN  assign_advice_from_instance(s2, c, 1, Advice(0, start + 1))

\* if row < nrows - 2 { selector.enable(region, row) }
SelectorRow(row, n) == row < n - 2

\* assign_loop_body without the selector
assign_loop_body_no_selector(st, c, start, row, n, a_cell, b_cell) ==
  assign_advice(st, Advice(0, start + row), Some(FAdd(a_cell.value, b_cell.value)))

\* One iteration of the loop of the region body of FiboChip::assign
assign_loop_body(st, c, start, row, n, a_cell, b_cell) ==
  LET s1 == IF SelectorRow(row, n) THEN enable(st, c, "selector", start + row)
            ELSE st
      c_val == Some(FAdd(a_cell.value, b_cell.value))
  IN  assign_advice(s1, Advice(0, start + row), c_val)

\* FiboChip::assign: the region is reserved, the selector is enabled at offset
\* 0 and the two seeds are copied from the public column
assign_head ==
  /\ circuit = "fibo1" /\ pc = "assign"
  /\ LET start == cursor
         st == assign_head_body(RegionState, circuit, start)
     IN  /\ regions' = assign_region(regions, "entire fibonacci table", start,
                                     TableRows(nrows))
         /\ cursor' = start + TableRows(nrows)
         /\ Commit(st)
         /\ IF st.err = ""
            THEN /\ prev_a' = ACell(Advice(0, start), st.table[Advice(0, start)])
                 /\ prev_b' = ACell(Advice(0, start + 1),
                                    st.table[Advice(0, start + 1)])
                 /\ i' = 2
                 /\ pc' = IF 2 < nrows THEN "assign_loop" ELSE "expose_out"
            ELSE /\ pc' = "error"
                 /\ UNCHANGED <<prev_a, prev_b, i>>
  /\ UNCHANGED <<circuit, a, b, nrows, range_v, prev_c, mutated, failures>>

\* for row in 2..nrows: a_cell is held in prev_a, b_cell in prev_b
assign_loop ==
  /\ circuit = "fibo1" /\ pc = "assign_loop" /\ i < nrows
  /\ LET start == regions[Len(regions)].start
         st == assign_loop_body(RegionState, circuit, start, i, nrows,
                                prev_a, prev_b)
     IN  /\ Commit(st)
         /\ IF st.err = ""
            THEN /\ prev_a' = prev_b
                 /\ prev_b' = ACell(Advice(0, start + i),
                                    st.table[Advice(0, start + i)])
                 /\ i' = i + 1
                 /\ pc' = IF i + 1 < nrows THEN "assign_loop" ELSE "expose_out"
            ELSE /\ pc' = "error"
                 /\ UNCHANGED <<prev_a, prev_b, i>>
  /\ UNCHANGED <<circuit, a, b, nrows, range_v, regions, cursor, prev_c,
                 mutated, failures>>

\* chip.expose_public(.., out_cell, 2): out_cell is assign's b_cell
expose_out ==
  /\ circuit = "fibo1" /\ pc = "expose_out"
  /\ LET st == expose_public(RegionState, circuit, prev_b, OutputRow)
     IN  /\ Commit(st)
         /\ pc' = IF st.err # "" THEN "error" ELSE "synthesized"
  /\ UNCHANGED <<circuit, a, b, nrows, range_v, regions, cursor, i,
                 prev_a, prev_b, prev_c, mutated, failures>>

---------------------------------------------------------------------------
(* Range-check circuits: src/src/range_check/example1.rs and example2.rs *)

\* The outcome of a call whose Result is dropped: its effect stays, its error
\* does not reach the caller
Discarded(before, after) == [after EXCEPT !.err = before.err]

\* The region body of RangeCheckConfig::assign: the selector's enable is
\* called without ?, the assignment with ?
range_assign_body(st, c, sel, start, val) ==
  LET offset == 0
      s1 == Discarded(st, enable(st, c, sel, start + offset))
  IN  assign_advice(s1, Advice(0, start + offset), val)

\* if range < RANGE {direct gate} else {lookup}, in range_check/example2.rs
UsesGate(range) == range < RANGE

\* The selector and the region name RangeCheckConfig::assign uses for `range`;
\* range_check/example1.rs has the direct gate only
Strategy(c, range) ==
  IF c = "range1" \/ UsesGate(range)
  THEN [sel |-> "q_range_check", name |-> "Assign value"]
  ELSE [sel |-> "q_lookup", name |-> "Assign value for lookup range check"]

\* RangeCheckTable::load (design 4.6): the target column holds 0 .. LOOKUP_RANGE-1
load_table(t) ==
  [x \in DOMAIN t \cup {Fixed(r) : r \in 0 .. (LOOKUP_RANGE - 1)} |->
     IF x[1] = "fixed" THEN x[3] ELSE t[x]]

\* config.table.load(&mut layouter)?
load ==
  /\ circuit = "range2" /\ pc = "load"
  /\ table' = load_table(table)
  /\ pc' = "assign_value"
  /\ UNCHANGED <<circuit, a, b, nrows, range_v, selectors, copies, regions,
                 cursor, i, prev_a, prev_b, prev_c, mutated, failures>>

\* config.assign(.., self.value, RANGE)? (range1: config.assign(.., self.value)?)
\* and config.assign(.., self.large_value, LOOKUP_RANGE)?
range_assign ==
  /\ circuit \in {"range1", "range2"}
  /\ pc \in {"assign_value", "assign_large"}
  /\ LET val   == IF pc = "assign_value" THEN a ELSE b
         range == IF pc = "assign_value" THEN range_v ELSE LOOKUP_RANGE
         how   == Strategy(circuit, range)
         start == cursor
         st    == range_assign_body(RegionState, circuit, how.sel, start, val)
     IN  /\ range <= LOOKUP_RANGE
         /\ regions' = assign_region(regions, how.name, start, 1)
         /\ cursor' = start + 1
         /\ Commit(st)
         /\ pc' = IF st.err # "" THEN "error"
                  ELSE IF circuit = "range2" /\ pc = "assign_value"
                  THEN "assign_large" ELSE "synthesized"
  /\ UNCHANGED <<circuit, a, b, nrows, range_v, i, prev_a, prev_b, prev_c,
                 mutated, failures>>

---------------------------------------------------------------------------
(* The test driver: MockProver::run, an optional corruption of one advice  *)
(* cell of a satisfying table (design 8), and prover.verify()              *)

AdviceCells(t) == {x \in DOMAIN t : x[1] = "advice"}

\* One assigned advice cell of a Fibonacci table that satisfies every
\* constraint is changed after synthesis
Corrupt ==
  /\ circuit \in {"fibo3", "fibo1"}
  /\ pc = "synthesized" /\ mutated = {}
  /\ verify(circuit, table, selectors, copies, regions) = <<>>
  /\ \E cell \in AdviceCells(table), d \in 1 .. MaxDelta :
       /\ table' = WriteCell(table, cell, FAdd(table[cell], d))
       /\ mutated' = {cell}
  /\ UNCHANGED <<circuit, a, b, nrows, range_v, selectors, copies, regions,
                 cursor, pc, i, prev_a, prev_b, prev_c, failures>>

\* prover.verify() / prover.assert_satisfied()
Verify ==
  /\ pc = "synthesized"
  /\ failures' = verify(circuit, table, selectors, copies, regions)
  /\ pc' = "verified"
  /\ UNCHANGED <<circuit, a, b, nrows, range_v, table, selectors, copies,
                 regions, cursor, i, prev_a, prev_b, prev_c, mutated>>

---------------------------------------------------------------------------
(* Inputs and initial states *)

\* The n-th value (from 0) of the sequence that starts x, y
RECURSIVE Fib(_, _, _)
Fib(x, y, n) == IF n = 0 THEN x ELSE Fib(y, x + y, n - 1)

\* MyCircuit.a / MyCircuit.b of the Fibonacci circuits
Seeds == {None} \cup {Some(v) : v \in 1 .. MaxSeed}

\* public_input = vec![a, b, out]: out is the value the table should expose
\* for these seeds, or a wrong one
PublicInputs(n) ==
  UNION { { <<p[1], p[2], out>> : out \in {Fib(p[1], p[2], n - 1),
                                           Fib(p[1], p[2], n - 1) + 1, 0} } :
          p \in (1 .. MaxSeed) \X (1 .. MaxSeed) }

\* MockProver::run(k, &circuit, vec![public_input]): the public column
InstanceTable(pub) ==
  [x \in {Instance(r) : r \in 0 .. (Len(pub) - 1)} |-> pub[x[3] + 1]]

\* Value::known(v) for the witnesses of the range checks, or Value::unknown()
SmallValues == {None} \cup {Some(v) : v \in 0 .. MaxValue}

LargeValues == {None} \cup {Some(v) : v \in 0 .. (LOOKUP_RANGE + MaxOver)}

\* The values of large_value tried together with every `value`: both ends of
\* the lookup range
EdgeValues ==
  {None} \cup {Some(v) : v \in (0 .. MaxValue) \cup
                              ((LOOKUP_RANGE - 1) .. (LOOKUP_RANGE + MaxOver))}

\* State of a prover before synthesize runs, the layouter's next free row
\* being r
FreshAt(r) ==
  /\ selectors = {}
  /\ copies = <<>>
  /\ regions = <<>>
  /\ cursor = r
  /\ i = 0
  /\ prev_a = NullCell /\ prev_b = NullCell /\ prev_c = NullCell
  /\ mutated = {}
  /\ failures = <<>>

\* State of a fresh prover, before synthesize runs
Fresh == FreshAt(0)

\* MyCircuit { a, b } and the public inputs of the three-column circuit
Fibo3Inputs ==
  /\ circuit = "fibo3"
  /\ a \in Seeds /\ b \in Seeds
  /\ nrows = SynthNRows /\ range_v = RANGE
  /\ \E pub \in PublicInputs(SynthNRows) : table = InstanceTable(pub)
  /\ pc = "first_row"

InitFibo3 == Fibo3Inputs /\ Fresh

\* The seeds of the single-column circuit are read from the public column;
\* MyCircuit.a and .b are those of main or of without_witnesses
Fibo1Inputs ==
  /\ circuit = "fibo1"
  /\ a \in {None, Some(1)} /\ b = a
  /\ nrows \in 2 .. MaxNRows /\ range_v = RANGE
  /\ \E pub \in PublicInputs(nrows) : table = InstanceTable(pub)
  /\ pc = "assign"

InitFibo1 == Fibo1Inputs /\ Fresh

\* MyCircuit { value } of range_check/example1.rs
Range1Inputs ==
  /\ circuit = "range1"
  /\ a \in SmallValues /\ b = None
  /\ nrows = SynthNRows /\ range_v = RANGE
  /\ table = InstanceTable(<<>>)
  /\ pc = "assign_value"

InitRange1 == Range1Inputs /\ Fresh

\* synthesize passes RANGE for `value`; RANGE - 1 exercises the other branch
\* of assign
Range2Inputs ==
  /\ circuit = "range2"
  /\ \/ a \in SmallValues /\ b \in EdgeValues
     \/ a = Some(0) /\ b \in LargeValues
  /\ nrows = SynthNRows /\ range_v \in {RANGE - 1, RANGE}
  /\ table = InstanceTable(<<>>)
  /\ pc = "load"

InitRange2 == Range2Inputs /\ Fresh

InitFibo == InitFibo3 \/ InitFibo1

InitRange == InitRange1 \/ InitRange2

Init == InitFibo \/ InitRange

NextFibo ==
  \/ assign_first_row
  \/ assign_row
  \/ expose
  \/ assign_head
  \/ assign_loop
  \/ expose_out
  \/ Corrupt
  \/ Verify

NextRange ==
  \/ load
  \/ range_assign
  \/ Verify

Next == NextFibo \/ NextRange

\* Every circuit
Spec == Init /\ [][Next]_vars

\* The two Fibonacci circuits
SpecFibo == InitFibo /\ [][NextFibo]_vars

\* The two range-check circuits
SpecRange == InitRange /\ [][NextRange]_vars

\* The assign routines called on a layouter whose next free row is within
\* MaxRoom rows of the end of the table
InitPlaced ==
  /\ Fibo3Inputs \/ Fibo1Inputs \/ Range1Inputs \/ Range2Inputs
  /\ \E room \in 0 .. MaxRoom : FreshAt(NumRows(circuit) - room)

NextPlaced ==
  \/ assign_first_row
  \/ assign_row
  \/ expose
  \/ assign_head
  \/ assign_loop
  \/ expose_out
  \/ load
  \/ range_assign
  \/ Verify

\* Every circuit, synthesized at the end of the table
SpecPlaced == InitPlaced /\ [][NextPlaced]_vars

---------------------------------------------------------------------------
(* Properties *)

\* The public inputs the table was created with
PublicInput(t) == <<t[Instance(0)], t[Instance(1)], t[Instance(2)]>>

\* F[0] .. F[9] for the seeds 1, 1
FibonacciNumbers == <<1, 1, 2, 3, 5, 8, 13, 21, 34, 55>>

\* main of both Fibonacci circuits: seeds 1, 1, public input (1, 1, 55), the
\* table as synthesize left it
MainRun ==
  /\ circuit \in {"fibo3", "fibo1"}
  /\ a = Some(1) /\ b = Some(1)
  /\ nrows = SynthNRows
  /\ PublicInput(table) = <<1, 1, 55>>
  /\ mutated = {}

\* C1: with seeds 1, 1 both Fibonacci circuits produce 1, 1, 2, 3, 5, 8, 13,
\* 21, 34, 55 in order (three columns: row r holds F[r], F[r+1], F[r+2]; one
\* column: row r holds F[r]), and the checker, given the public inputs
\* (1, 1, 55), reports no violation.
C1_FibonacciSatisfied ==
  (MainRun /\ pc = "verified") =>
    /\ failures = <<>>
    /\ circuit = "fibo3" =>
         /\ AdviceCells(table) = {Advice(col, r) : col \in 0 .. 2, r \in 0 .. 7}
         /\ \A col \in 0 .. 2, r \in 0 .. 7 :
              table[Advice(col, r)] = FibonacciNumbers[r + col + 1]
    /\ circuit = "fibo1" =>
         /\ AdviceCells(table) = {Advice(0, r) : r \in 0 .. 9}
         /\ \A r \in 0 .. 9 : table[Advice(0, r)] = FibonacciNumbers[r + 1]

C1_Witness ==
  /\ MainRun /\ pc = "verified" /\ circuit = "fibo3"
  /\ failures = <<>>
  /\ table[Advice(2, 7)] = 55

\* The violation test_range_check_1 expects for v = 8
RangeCheckFailure ==
  [kind |-> "ConstraintNotSatisfied", gate |-> <<0, "Range check">>,
   constraint |-> <<0, "range check">>,
   region |-> <<0, "Assign value">>, offset |-> 0,
   cells |-> << <<"advice", 0, 0>> >>, values |-> <<"0x8">>]

\* C2: direct range check, RANGE = 8: every v in [0, 8) is satisfied; v = 8
\* gives exactly one ConstraintNotSatisfied at gate "Range check", constraint
\* "range check", region "Assign value", offset 0, cell value 0x8; the gate
\* expression v * (1 - v) * ... * (RANGE - 1 - v) is zero exactly for v < RANGE.
C2_DirectRangeCheck ==
  (circuit = "range1" /\ pc = "verified") =>
    LET v == table[Advice(0, 0)]
        e == Eval(range_check(RANGE, query_advice(0, 0)), table, selectors, 0)
    IN  /\ a = Some(v)
        /\ <<"q_range_check", 0>> \in selectors
        /\ v < RANGE => failures = <<>>
        /\ v = RANGE => failures = <<RangeCheckFailure>>
        /\ (Unwrap(e) = 0) <=> (v < RANGE)
        /\ (failures = <<>>) <=> (v < RANGE)

C2_Witness ==
  /\ circuit = "range1" /\ pc = "verified"
  /\ a = Some(RANGE)
  /\ failures = <<RangeCheckFailure>>

\* The violations the checker located at absolute row r
FailuresAt(r) ==
  {k \in DOMAIN failures :
     /\ failures[k].region = Location(regions, r).region
     /\ failures[k].offset = Location(regions, r).offset
     /\ failures[k].kind # "PermutationNotSatisfied"}

C4_StrategyByRange ==
  (circuit = "range2" /\ range_v = RANGE /\ a = Some(RANGE)) =>
    /\ Len(regions) >= 1 =>
         /\ <<"q_range_check", 0>> \in selectors
         /\ <<"q_lookup", 0>> \notin selectors
    /\ Len(regions) >= 2 =>
         /\ <<"q_lookup", 1>> \in selectors
         /\ <<"q_range_check", 1>> \notin selectors
    /\ pc = "verified" =>
         /\ failures # <<>>
         /\ failures[1] = RangeCheckFailure

\* The ConstraintNotSatisfied violations of the checker's result
ConstraintFailures ==
  {k \in DOMAIN failures : failures[k].kind = "ConstraintNotSatisfied"}

\* The row of the corrupted cell
MutatedRow == (CHOOSE cell \in mutated : TRUE)[3]

\* A Fibonacci table that satisfied every constraint, one value of which was
\* then changed, as the checker found it
MutatedRun ==
  /\ circuit \in {"fibo3", "fibo1"}
  /\ pc = "verified"
  /\ mutated # {}

\* C5 as claimed: changing one value of a satisfying Fibonacci table gives
\* exactly one ConstraintNotSatisfied, at gate "add", at the changed row, in
\* the three-column and in the single-column circuit.
C5_OneViolationAtMutatedRow ==
  (MutatedRun /\ nrows = SynthNRows) =>
    /\ Cardinality(ConstraintFailures) = 1
    /\ \A k \in ConstraintFailures :
         /\ failures[k].gate = <<0, "add">>
         /\ failures[k].region = Location(regions, MutatedRow).region
         /\ failures[k].offset = Location(regions, MutatedRow).offset

\* C5 as amended: in the three-column circuit the change gives exactly one
\* ConstraintNotSatisfied, at gate "add", at the changed row; in the
\* single-column circuit, whose gate reads rows r, r+1, r+2, a change at row m
\* gives one ConstraintNotSatisfied at gate "add" for every row among m-2,
\* m-1, m on which the selector is enabled (rows 2, 3 and 4 for m = 4 of the
\* 10-row table), and no other gate violation.
C5_GateViolationsOfMutation ==
  MutatedRun =>
    /\ \A k \in DOMAIN failures :
         failures[k].kind \in {"ConstraintNotSatisfied", "PermutationNotSatisfied"}
    /\ \A k \in ConstraintFailures : failures[k].gate = <<0, "add">>
    /\ circuit = "fibo3" =>
         /\ Cardinality(ConstraintFailures) = 1
         /\ \A k \in ConstraintFailures :
              /\ failures[k].region = Location(regions, MutatedRow).region
              /\ failures[k].offset = Location(regions, MutatedRow).offset
    /\ circuit = "fibo1" =>
         /\ \A r \in 0 .. (nrows - 1) :
              Cardinality({k \in ConstraintFailures :
                             /\ failures[k].region = <<0, "entire fibonacci table">>
                             /\ failures[k].offset = r})
                = IF <<"selector", r>> \in selectors
                     /\ MutatedRow \in {r, r + 1, r + 2}
                  THEN 1 ELSE 0
         /\ \A k \in ConstraintFailures : failures[k].offset \in 0 .. (nrows - 1)
         /\ (nrows = SynthNRows /\ MutatedRow = 4) =>
              {failures[k].offset : k \in ConstraintFailures} = {2, 3, 4}

C5_Witness ==
  /\ MutatedRun /\ circuit = "fibo1" /\ nrows = SynthNRows
  /\ mutated = {Advice(0, 4)}
  /\ Cardinality(ConstraintFailures) = 3

\* The copies the code makes, as <<destination, source>>: assign_row copies
\* prev_b into column a and prev_c into column b of its row; the single-column
\* assign copies rows 0 and 1 of the public column
CopyPairs ==
  IF circuit = "fibo3"
  THEN {<<Advice(0, 1), Advice(1, 0)>>}
       \cup {<<Advice(0, r), Advice(2, r - 2)>> : r \in 2 .. 7}
       \cup {<<Advice(1, r), Advice(2, r - 1)>> : r \in 1 .. 7}
  ELSE {<<Advice(0, 0), Instance(0)>>, <<Advice(0, 1), Instance(1)>>}

\* C6: after synthesis every copy (copy_advice in assign_row,
\* assign_advice_from_instance in the single-column assign) has recorded the
\* equality pair of its two absolute cells, the two cells are in one equality
\* class and hold equal values; when the destination is then corrupted and the
\* source is not, the checker reports a PermutationNotSatisfied naming both.
C6_CopyConstrainsEqual ==
  (circuit \in {"fibo3", "fibo1"} /\ pc \in {"synthesized", "verified"}) =>
    \A p \in CopyPairs :
      /\ \E k \in DOMAIN copies : copies[k] = p
      /\ p[2] \in ClassOf(p[1], copies)
      /\ mutated = {} => table[p[1]] = table[p[2]]
      /\ (pc = "verified" /\ mutated = {p[1]}) =>
           \E k \in DOMAIN failures :
             /\ failures[k].kind = "PermutationNotSatisfied"
             /\ failures[k].cells = <<p[1], p[2]>>

C6_Witness ==
  /\ circuit = "fibo3" /\ pc = "verified"
  /\ mutated = {Advice(1, 1)}
  /\ \E k \in DOMAIN failures :
       /\ failures[k].kind = "PermutationNotSatisfied"
       /\ failures[k].cells = <<Advice(1, 1), Advice(2, 0)>>

\* C7 (as claimed): in the single-column assign(nrows), nrows >= 2, the
\* selector is never enabled on the final two rows of the region: every row r
\* with the selector enabled has r + 2 <= nrows - 1, and once the region body
\* has run the three cells the gate reads there are assigned, so the checker
\* finds no gate reading an unassigned cell.
C7_SelectorRowsInsideRegion ==
  (circuit = "fibo1" /\ nrows >= 2 /\ Len(regions) = 1) =>
    LET start == regions[1].start
    IN  /\ \A sr \in selectors : (sr[2] - start) + 2 <= nrows - 1
        /\ pc \in {"expose_out", "synthesized", "verified"} =>
             \A sr \in selectors :
               \A d \in 0 .. 2 : IsAssigned(table, Advice(0, sr[2] + d))
        /\ pc = "verified" =>
             \A k \in DOMAIN failures : failures[k].kind # "CellNotAssigned"

\* Regions hold at least one row, lie below the cursor, and a later region
\* starts at or after the end of every earlier one
RegionsOrdered ==
  /\ \A k \in DOMAIN regions :
       /\ regions[k].start >= 0
       /\ regions[k].rows >= 1
       /\ regions[k].start + regions[k].rows <= cursor
  /\ \A j \in DOMAIN regions, k \in DOMAIN regions :
       j < k => regions[j].start + regions[j].rows <= regions[k].start

\* "first_row" and the 7 "next row" regions of the three-column circuit
Fibo3Regions ==
  [k \in 1 .. 8 |-> [name |-> IF k = 1 THEN "first_row" ELSE "next row",
                     start |-> k - 1, rows |-> 1]]

Fibo3Layout ==
  (circuit = "fibo3" /\ pc \in {"expose_out", "synthesized", "verified"}) =>
    regions = Fibo3Regions

\* C8: the layouter's cursor never decreases; the regions occupy pairwise
\* disjoint row ranges, increasing in the order of the assign_region calls;
\* in the three-column circuit "first_row" and the 7 "next row" regions occupy
\* rows 0 .. 7 in call order.
C8_RegionsDisjointIncreasing ==
  /\ [](RegionsOrdered /\ Fibo3Layout)
  /\ [][cursor' >= cursor /\ SubSeq(regions', 1, Len(regions)) = regions]_vars

C8_Witness ==
  /\ circuit = "fibo3" /\ pc = "synthesized"
  /\ Len(regions) = 8 /\ cursor = 8
  /\ regions[8] = [name |-> "next row", start |-> 7, rows |-> 1]

\* Checker steps in the order of design 4.6
KindRank(kind) ==
  CASE kind = "PermutationNotSatisfied" -> 3
    [] kind = "LookupNotSatisfied" -> 2
    [] OTHER -> 1

\* Rows on which the selector of the circuit's gate is true and the gate's
\* expression is not zero
ViolatedGateRows ==
  LET gate == Gates(circuit)[1]
  IN  {r \in 0 .. (NumRows(circuit) - 1) :
         /\ <<gate.selector, r>> \in selectors
         /\ LET v == Eval(gate.poly, table, selectors, r)
            IN  IsSome(v) /\ Unwrap(v) # 0}

\* Rows on which the lookup's selector is true and the input matches no row
\* of the target column
ViolatedLookupRows ==
  IF Lookups(circuit) = <<>> THEN {}
  ELSE LET lookup == Lookups(circuit)[1]
       IN  {r \in 0 .. (NumRows(circuit) - 1) :
              /\ <<lookup.selector, r>> \in selectors
              /\ LET v == Eval(lookup.input, table, selectors, r)
                 IN  IsSome(v) /\ \A x \in TableValues(table) : x # Unwrap(v)}

\* Equality classes whose cells do not all hold one value
ViolatedClasses ==
  {C \in {ClassOf(copies[k][1], copies) : k \in DOMAIN copies} :
     \E x \in C, y \in C :
       ~IsAssigned(table, x) \/ ~IsAssigned(table, y) \/ table[x] # table[y]}

\* C9: the checker's list holds one violation for every (gate, row) with the
\* selector true and a non-zero expression, one for every (lookup, row) with
\* the selector true and no matching target row, and one for every equality
\* class whose cells differ; gates come first, then lookups, then equality;
\* the list is empty exactly when there is no such row and no such class.
C9_AllViolationsCollected ==
  pc = "verified" =>
    /\ \A r \in ViolatedGateRows :
         Cardinality({k \in FailuresAt(r) :
                        failures[k].kind = "ConstraintNotSatisfied"}) = 1
    /\ Cardinality(ConstraintFailures) = Cardinality(ViolatedGateRows)
    /\ \A r \in ViolatedLookupRows :
         Cardinality({k \in FailuresAt(r) :
                        failures[k].kind = "LookupNotSatisfied"}) = 1
    /\ Cardinality({k \in DOMAIN failures :
                      failures[k].kind = "LookupNotSatisfied"})
         = Cardinality(ViolatedLookupRows)
    /\ \A C \in ViolatedClasses :
         Cardinality({k \in DOMAIN failures :
                        /\ failures[k].kind = "PermutationNotSatisfied"
                        /\ failures[k].cells[1] \in C
                        /\ failures[k].cells[2] \in C}) = 1
    /\ Cardinality({k \in DOMAIN failures :
                      failures[k].kind = "PermutationNotSatisfied"})
         = Cardinality(ViolatedClasses)
    /\ \A j \in DOMAIN failures, k \in DOMAIN failures :
         j < k => KindRank(failures[j].kind) <= KindRank(failures[k].kind)
    /\ (\A k \in DOMAIN failures : failures[k].kind # "CellNotAssigned") =>
         ((failures = <<>>) <=> /\ ViolatedGateRows = {}
                                /\ ViolatedLookupRows = {}
                                /\ ViolatedClasses = {})

C9_Witness ==
  /\ circuit = "range2" /\ pc = "verified"
  /\ Len(failures) = 2
  /\ failures[1].kind = "ConstraintNotSatisfied"
  /\ failures[2].kind = "LookupNotSatisfied"

\* The value at offset r of the single-column table t (region at `start`) when
\* the cell at offset 3 is raised by d and every later cell is the sum of the
\* two cells above it
RECURSIVE ForgedValue(_, _, _, _)
ForgedValue(t, start, d, r) ==
  IF r < 3 THEN t[Advice(0, start + r)]
  ELSE IF r = 3 THEN FAdd(t[Advice(0, start + 3)], d)
  ELSE FAdd(ForgedValue(t, start, d, r - 2), ForgedValue(t, start, d, r - 1))

\* The table a prover gets from the synthesized one (n >= 4 rows) by raising
\* offset 3 by d, recomputing the rows below it and presenting the new last
\* cell as the public output; public rows 0 and 1 (the seeds) are unchanged
Forged(t, start, n, d) ==
  [x \in DOMAIN t |->
     IF x[1] = "advice" /\ x[3] >= start + 3
     THEN ForgedValue(t, start, d, x[3] - start)
     ELSE IF x = Instance(OutputRow) THEN ForgedValue(t, start, d, n - 1)
     ELSE t[x]]

\* C11 (as claimed): after the single-column assign(nrows) the selector of
\* gate "add" is enabled on every row r with 0 <= r <= nrows - 3, so that the
\* output cell is determined by the two public seeds: no table with the same
\* seeds and another output cell satisfies every enabled gate and every
\* equality constraint.
C11_EveryRowConstrained ==
  (circuit = "fibo1" /\ pc = "synthesized" /\ mutated = {}) =>
    LET start == regions[1].start
        out   == Advice(0, start + nrows - 1)
    IN  /\ \A r \in 0 .. (nrows - 3) : <<"selector", start + r>> \in selectors
        /\ nrows >= 4 =>
             \A d \in 1 .. MaxDelta :
               LET forged == Forged(table, start, nrows, d)
               IN  \/ forged[out] = table[out]
                   \/ verify(circuit, forged, selectors, copies, regions) # <<>>

\* The cells synthesize of the three-column circuit exposes, by public row
ExposedCells == <<Advice(0, 0), Advice(1, 0), Advice(2, LoopTo - LoopFrom)>>

\* A run of the three-column circuit the checker has examined as synthesized
ExposedRun ==
  /\ circuit = "fibo3"
  /\ pc = "verified"
  /\ mutated = {}

\* C12: in the three-column circuit with seeds a and b the cells given to
\* expose_public (a, b and the last c cell) are bound to public rows 0, 1 and
\* 2: the checker reports no violation exactly when the public inputs equal
\* (a, b, value of the last c cell), and for every public row that differs
\* from its exposed cell it reports a PermutationNotSatisfied naming that cell
\* and that public row.
C12_PublicInputsBound ==
  ExposedRun =>
    /\ \A r \in 0 .. 2 :
         \E k \in DOMAIN copies : copies[k] = <<ExposedCells[r + 1], Instance(r)>>
    /\ table[ExposedCells[1]] = Unwrap(a)
    /\ table[ExposedCells[2]] = Unwrap(b)
    /\ table[ExposedCells[3]] = prev_c.value
    /\ prev_c.cell = ExposedCells[3]
    /\ (failures = <<>>) <=>
         PublicInput(table) = <<Unwrap(a), Unwrap(b), prev_c.value>>
    /\ \A r \in 0 .. 2 :
         table[Instance(r)] # table[ExposedCells[r + 1]] =>
           \E k \in DOMAIN failures :
             /\ failures[k].kind = "PermutationNotSatisfied"
             /\ failures[k].cells = <<ExposedCells[r + 1], Instance(r)>>

C12_Witness ==
  /\ ExposedRun
  /\ a = Some(1) /\ b = Some(2)
  /\ PublicInput(table) = <<1, 2, 0>>
  /\ Len(failures) = 1
  /\ failures[1].kind = "PermutationNotSatisfied"
  /\ failures[1].cells = <<Advice(2, 7), Instance(2)>>

\* A seed of the three-column circuit is absent
SeedAbsent ==
  /\ circuit = "fibo3"
  /\ a = None \/ b = None

\* C13: when seed a or b of the three-column circuit is None, the region body
\* of assign_first_row fails with Error::Synthesis at the first absent value,
\* synthesize ends with that error, and nothing runs after it: the only region
\* is "first_row", the only cell assigned is the one before the failing
\* assignment, no equality pair or public exposure is recorded, the checker
\* never runs, and no step leaves the failed state.
C13_AbsentWitnessAborts ==
  /\ [](SeedAbsent =>
          /\ pc \in {"first_row", "error"}
          /\ pc = "first_row" =>
               assign_first_row_body(RegionState, circuit, cursor, a, b).err
                 = "Synthesis"
          /\ pc = "error" =>
               /\ Len(regions) = 1 /\ regions[1].name = "first_row"
               /\ cursor = 1
               /\ AdviceCells(table) = IF a = None THEN {} ELSE {Advice(0, 0)}
               /\ copies = <<>>
               /\ prev_a = NullCell /\ prev_b = NullCell /\ prev_c = NullCell
               /\ failures = <<>>)
  /\ [][pc # "error"]_vars

C13_Witness ==
  /\ circuit = "fibo3" /\ pc = "error"
  /\ a = Some(1) /\ b = None
  /\ AdviceCells(table) = {Advice(0, 0)}

\* The column of a cell, as configure names it
ColumnOf(cell) == <<cell[1], cell[2]>>

\* Equality pairs a complete synthesize records: the three-column circuit two
\* per assign_row and three exposures, the single-column circuit two copies
\* from the public column and one exposure
CopiesMade ==
  IF circuit = "fibo3" THEN 2 * (LoopTo - LoopFrom) + 3 ELSE 3

\* C14: a copy or exposure on a column without the equality flag is rejected
\* by the operation itself (an error, nothing recorded, nothing left to the
\* checker); in the two Fibonacci circuits every column that copy_advice,
\* assign_advice_from_instance or constrain_instance touches was enabled in
\* configure, so no run is rejected for that: synthesis fails only for an
\* absent seed, and a complete synthesis has recorded every pair.
C14_EqualityColumnsEnabled ==
  circuit \in {"fibo3", "fibo1"} =>
    /\ LET st == constrain_equal(RegionState, circuit, Advice(0, 0), Fixed(0))
       IN  /\ ColumnOf(Fixed(0)) \notin EqualityEnabled(circuit)
           /\ st.err = "ColumnNotInPermutation"
           /\ st.copies = copies
    /\ \A k \in DOMAIN copies :
         /\ ColumnOf(copies[k][1]) \in EqualityEnabled(circuit)
         /\ ColumnOf(copies[k][2]) \in EqualityEnabled(circuit)
    /\ pc = "error" => SeedAbsent
    /\ pc \in {"synthesized", "verified"} => Len(copies) = CopiesMade

C14_Witness ==
  /\ circuit = "fibo3" /\ pc = "synthesized"
  /\ Len(copies) = 17
  /\ {ColumnOf(copies[k][1]) : k \in DOMAIN copies}
       \cup {ColumnOf(copies[k][2]) : k \in DOMAIN copies}
     = EqualityEnabled("fibo3")

\* The region body about to run calls Selector::enable at a row where it fails
EnableFails ==
  LET fails(sel, row) == enable(RegionState, circuit, sel, row).err # ""
  IN  \/ /\ circuit = "fibo3" /\ pc \in {"first_row", "loop"}
         /\ fails("selector", cursor)
      \/ /\ circuit = "fibo1" /\ pc = "assign"
         /\ fails("selector", cursor)
      \/ /\ circuit = "fibo1" /\ pc = "assign_loop" /\ SelectorRow(i, nrows)
         /\ fails("selector", regions[Len(regions)].start + i)
      \/ /\ circuit \in {"range1", "range2"}
         /\ pc \in {"assign_value", "assign_large"}
         /\ fails(Strategy(circuit, IF pc = "assign_value" THEN range_v
                                    ELSE LOOKUP_RANGE).sel, cursor)

=============================================================================
